---- MODULE Spec2Model ----
(***************************************************************************)
(* TraceHub server core: the trace store (db.py), the ingest handlers      *)
(* (endpoints.py), the adaptive sampling controller (adaptive.py) and the  *)
(* subscriber broadcast (streaming.py).                                    *)
(*                                                                         *)
(* Time is time.time() counted in clock units of 1/SubSec second, so that  *)
(* the whole-second storage time SQLite writes on INSERT                   *)
(* (strftime('%s','now')) differs from the float storage time the          *)
(* soft-duplicate UPDATE writes.                                           *)
(***************************************************************************)
EXTENDS Integers, Sequences, FiniteSets, TLC

\* ------------------------------------------------------------------ bounds
SubSec == 2            \* clock units per second
Jitter == 1            \* clock units observed around each instant of interest
MaxRows == 2           \* rows the table holds before ingest handlers stop starting
MaxBatch == 2          \* entries per batch ingest request
MaxEtag == 4           \* etag value past which no further promotion is started
MaxRecent == 32        \* /recent calls made
MaxBacklog == 2        \* entries the prompt listener lets pile up unread
MaxTick == 361         \* ticks the maintenance loop performs
MaxSends == 2          \* send() calls made on the client
BatchSize == 2         \* batch_size given to TraceHubClient
MaxStamp == 2          \* last instant at which a notify call is made

Sec(n) == n * SubSec

\* ------------------------------------------------------- program constants
SOFT_WINDOW == Sec(300)                  \* db.py: now - 300
TRACEHUB_RETENTION_HOURS == 24
RETENTION == Sec(TRACEHUB_RETENTION_HOURS * 3600)
ADAPTIVE_HOT_TTL == Sec(300)
ADAPTIVE_WARM_TTL == Sec(1500)
ADAPTIVE_TICK_INTERVAL == Sec(10)
\* sampling rates in tenths: 1.0, ADAPTIVE_WARM_RATE = 0.1, ADAPTIVE_COLD_RATE = 0.0
HOT_RATE == 10
ADAPTIVE_WARM_RATE == 1
ADAPTIVE_COLD_RATE == 0

\* ---------------------------------------------------------------- universe
Corrs == {"c1", "c2"}
Handlers == {"h1", "h2"}
Streams == {"s1", "s2"}
Readers == {"q1", "q2"}
Threads == {"t1", "t2"}

\* TraceEntry (models.py): the fields the store and the broadcast read.
Entry(src, c, ts, sfx, dir, ep) ==
    [source_id |-> src, correlation_id |-> c, timestamp |-> ts,
     suffix |-> sfx, direction |-> dir, endpoint |-> ep]

\* c1: a pair with one soft-dedup key and two timestamps, a third entry of
\* that key with another suffix, and one with the triple of the first under
\* another key; c2: one entry.
Entries ==
    {Entry("WK", "c1", 1000, "a", "->", "/foo"),
     Entry("WK", "c1", 2000, "a", "->", "/foo"),
     Entry("WK", "c1", 2000, "b", "->", "/foo"),
     Entry("WK", "c1", 1000, "a", "<-", "/foo"),
     Entry("WK", "c2", 1000, "a", "->", "/foo")}

NoEntry == Entry("", "", 0, "", "", "")

\* The instants at which a specification observes the clock: Jitter clock
\* units either side of each instant of interest.
Around(bases) == {b + j : b \in bases, j \in (0 - Jitter)..Jitter} \cap Nat

SeqTimes == Around({0, SOFT_WINDOW})
StoreTimes == {0, SOFT_WINDOW, RETENTION + SubSec}

VARIABLES
    now,          \* time.time()
    rows,         \* table traces, in rowid order
    ingest,       \* per ingest handler: position in ingest_traces / insert_trace
    adaptive,     \* _adaptive_state: tracked id -> [state, expires_at, queried_at]
    etag,         \* _config_etag
    last,         \* the last controller or query call and what it returned
    subscribers,  \* _subscribers: id -> list of listener queues
    subTs,        \* _subscriber_timestamps
    queues,       \* per stream handler: its asyncio.Queue contents
    stream,       \* per stream handler: position in event_generator
    lastTick,     \* time of the maintenance loop's last cooldown tick
    issued,       \* the /tracing/config client: the token it holds, the
                  \* states when it was issued, the last status code
    recentWindow, \* _recent_rate_window
    recentRequests, \* _stats["recent_requests"]
    recentLog,    \* every /recent call so far: its time and whether accepted
    query,        \* per get_traces handler: position and previous_state
    run,          \* per id: previous_state seen by each get_traces call since
                  \* the id was last absent from _adaptive_state
    sent,         \* per stream: what its client has received, where the
                  \* client keeps a record (the Watched actions)
    loop,         \* cleanup_loop: its position, its tick counter and the
                  \* steps the current tick has run
    deleted,      \* what the last cleanup_old_traces call returned
    running,      \* TraceHubClient._running
    queue,        \* TraceHubClient._queue
    sender,       \* the sender thread: its position in _sender_loop, its
                  \* local batch and last_flush
    caller,       \* per application thread: its position in send(), flush()
                  \* or close(), and what its last flush() returned
    made,         \* how many TraceEntry objects send() has been given
    placed,       \* the entries that send() has put on the queue
    handed        \* the entries that have been passed to _send_batch

vars == <<now, rows, ingest, adaptive, etag, last,
          subscribers, subTs, queues, stream, lastTick,
          issued, recentWindow, recentRequests, recentLog, query, run,
          sent, loop, deleted,
          running, queue, sender, caller, made, placed, handed>>

storeVars == <<rows, ingest>>
adaptiveVars == <<adaptive, etag, last, lastTick>>
streamVars == <<subscribers, subTs, queues, stream>>
recentVars == <<recentWindow, recentRequests, recentLog>>
\* what the store, the controller and the broadcast never write
maintVars == <<loop, deleted>>
\* the producer-side client (client.py): nothing in the service writes it
clientVars == <<running, queue, sender, caller, made, placed, handed>>
restVars == <<issued, recentVars, query, maintVars, sent, clientVars>>

\* ============================================================ trace store
SoftKey(r) == <<r.source_id, r.correlation_id, r.endpoint, r.direction>>
Triple(r) == <<r.correlation_id, r.timestamp, r.suffix>>

\* UNIQUE(correlation_id, timestamp, suffix)
UniqueOk(rs) ==
    \A i, j \in DOMAIN rs : i # j => Triple(rs[i]) # Triple(rs[j])

\* created_at REAL DEFAULT (strftime('%s', 'now')): whole seconds
DefaultCreatedAt(t) == (t \div SubSec) * SubSec

Row(e, t) ==
    [source_id |-> e.source_id, correlation_id |-> e.correlation_id,
     timestamp |-> e.timestamp, suffix |-> e.suffix,
     direction |-> e.direction, endpoint |-> e.endpoint,
     created_at |-> DefaultCreatedAt(t)]

\* WHERE clause of the soft-duplicate UPDATE
SoftMatches(rs, e, t) ==
    {i \in DOMAIN rs :
        /\ SoftKey(rs[i]) = SoftKey(e)
        /\ rs[i].created_at > t - SOFT_WINDOW}

\* Faulty variant, not the code: the refresh rewrites the storage time only
MutUpdateKeepsTimestamp(rs, e, t) ==
    [i \in DOMAIN rs |->
        IF i \in SoftMatches(rs, e, t)
        THEN [rs[i] EXCEPT !.created_at = t]
        ELSE rs[i]]

\* UPDATE traces SET timestamp = ?, created_at = ? WHERE ...
UpdateStmt(rs, e, t) ==
    [i \in DOMAIN rs |->
        IF i \in SoftMatches(rs, e, t)
        THEN [rs[i] EXCEPT !.timestamp = e.timestamp, !.created_at = t]
        ELSE rs[i]]

\* Faulty variant, not the code: a plain INSERT, no UNIQUE constraint
MutInsertNoIgnore(rs, e, t) == Append(rs, Row(e, t))

\* INSERT OR IGNORE INTO traces: the row is dropped when it would break UNIQUE
InsertOrIgnore(rs, e, t) ==
    IF \E i \in DOMAIN rs : Triple(rs[i]) = Triple(e)
    THEN rs
    ELSE Append(rs, Row(e, t))

\* Faulty variant, not the code: return db.total_changes >= 0
MutInsertResultAlways(total_changes) == total_changes >= 0

\* return db.total_changes > 0
InsertResult(total_changes) == total_changes > 0

\* Faulty variant, not the code: DELETE ... WHERE created_at <= cutoff
MutRetentionKeepsLater(r, t) == r.created_at > t - RETENTION

\* DELETE FROM traces WHERE created_at < cutoff
RetentionKeeps(r, t) == ~(r.created_at < t - RETENTION)

CleanupRows(rs, t) == SelectSeq(rs, LAMBDA r : RetentionKeeps(r, t))

\* SELECT * FROM traces WHERE correlation_id = ? : the rows of one id
RowsOf(rs, c) == SelectSeq(rs, LAMBDA r : r.correlation_id = c)

\* ===================================================== subscriber broadcast
QUEUE_MAXSIZE == 100

Range(f) == {f[i] : i \in DOMAIN f}
Without(f, k) == [x \in DOMAIN f \ {k} |-> f[x]]
With(f, k, v) == [x \in DOMAIN f \cup {k} |-> IF x = k THEN v ELSE f[x]]

\* subscribe: a new queue is appended to the id's bucket, the activity
\* timestamp is set
SubscribeSubs(subs, c, s) ==
    With(subs, c, Append(IF c \in DOMAIN subs THEN subs[c] ELSE <<>>, s))

\* Faulty variant, not the code: unsubscribe leaves the registry alone
MutUnsubscribeKeeps(subs, c, s) == subs

\* unsubscribe: the queue leaves the bucket, an emptied bucket is deleted
\* (list.remove raises ValueError when the queue is not there: ignored)
UnsubscribeSubs(subs, c, s) ==
    IF c \notin DOMAIN subs \/ s \notin Range(subs[c])
    THEN subs
    ELSE LET left == SelectSeq(subs[c], LAMBDA x : x # s)
         IN  IF left = <<>> THEN Without(subs, c) ELSE [subs EXCEPT ![c] = left]

\* notify_subscribers: the listeners whose put_nowait raises QueueFull
NotifyDead(subs, qs, e) ==
    IF e.correlation_id \in DOMAIN subs
    THEN {s \in Range(subs[e.correlation_id]) : Len(qs[s]) >= QUEUE_MAXSIZE}
    ELSE {}

\* Faulty variant, not the code: the trace is put on every registered queue
MutNotifyQueuesAll(subs, qs, e) ==
    [s \in DOMAIN qs |->
        IF (\E c \in DOMAIN subs : s \in Range(subs[c]))
           /\ Len(qs[s]) < QUEUE_MAXSIZE
        THEN Append(qs[s], e)
        ELSE qs[s]]

\* Faulty variant, not the code: the trace goes to the head of each queue
MutNotifyQueuesFront(subs, qs, e) ==
    [s \in DOMAIN qs |->
        IF /\ e.correlation_id \in DOMAIN subs
           /\ s \in Range(subs[e.correlation_id])
           /\ Len(qs[s]) < QUEUE_MAXSIZE
        THEN <<e>> \o qs[s]
        ELSE qs[s]]

\* notify_subscribers: queue.put_nowait(trace) on every listener of the id
NotifyQueues(subs, qs, e) ==
    [s \in DOMAIN qs |->
        IF /\ e.correlation_id \in DOMAIN subs
           /\ s \in Range(subs[e.correlation_id])
           /\ Len(qs[s]) < QUEUE_MAXSIZE
        THEN Append(qs[s], e)
        ELSE qs[s]]

\* Faulty variant, not the code: dead queues stay registered
MutNotifySubsKeepsDead(subs, qs, e) == subs

\* notify_subscribers: dead queues leave the bucket, an emptied bucket goes
NotifySubs(subs, qs, e) ==
    LET c == e.correlation_id
    IN  IF c \notin DOMAIN subs
        THEN subs
        ELSE LET live == SelectSeq(subs[c],
                                   LAMBDA s : s \notin NotifyDead(subs, qs, e))
             IN  IF live = <<>> THEN Without(subs, c)
                 ELSE [subs EXCEPT ![c] = live]

\* notify_subscribers: _subscriber_timestamps.pop with an emptied bucket
NotifyTs(subs, qs, ts, e) ==
    LET c == e.correlation_id
    IN  IF c \in DOMAIN subs /\ c \notin DOMAIN NotifySubs(subs, qs, e)
        THEN IF c \in DOMAIN ts THEN Without(ts, c) ELSE ts ELSE ts

\* -------------------------------------------------------- ingest handlers
\* An ingest handler: the request's traces, the index of the one insert_trace
\* is working on, insert_trace's local now, its return value, and what the
\* call did to the table (how, added, slot) with the outcomes of the earlier
\* entries of the request (outs).
IdleIngest ==
    [pc |-> "idle", kind |-> "none", batch |-> <<>>, idx |-> 0, t |-> 0,
     res |-> FALSE, how |-> "", added |-> 0, slot |-> 0, created |-> 0,
     inserted |-> 0, outs |-> <<>>]

Cur(h) == ingest[h].batch[ingest[h].idx]

\* insert_trace, lines 77-78: now = time.time(), then the connection is opened
BeginInsert(h, kind, b, i, ins, outs) ==
    ingest' = [ingest EXCEPT ![h] =
        [pc |-> "update", kind |-> kind, batch |-> b, idx |-> i, t |-> now,
         res |-> FALSE, how |-> "", added |-> 0, slot |-> 0, created |-> 0,
         inserted |-> ins, outs |-> outs]]

\* POST /ingest/single (ingest_single_trace) is entered
IngestSingle(h, e) ==
    /\ ingest[h].pc = "idle"
    /\ Len(rows) < MaxRows
    /\ BeginInsert(h, "single", <<e>>, 1, 0, <<>>)
    /\ UNCHANGED <<now, rows, adaptiveVars, streamVars, restVars, run>>

\* POST /ingest (ingest_traces) is entered with a batch
IngestBatch(h, b) ==
    /\ ingest[h].pc = "idle"
    /\ Len(rows) < MaxRows
    /\ BeginInsert(h, "batch", b, 1, 0, <<>>)
    /\ UNCHANGED <<now, rows, adaptiveVars, streamVars, restVars, run>>

\* aiosqlite.connect (line 78) raises: it is outside the try block, so the
\* exception leaves insert_trace and the handler
ConnectFault(h) ==
    /\ ingest[h].pc = "update"
    /\ ingest' = [ingest EXCEPT ![h].pc = "raised", ![h].how = "raised"]
    /\ UNCHANGED <<now, rows, adaptiveVars, streamVars, restVars, run>>

\* insert_trace, lines 80-94: the soft-duplicate UPDATE and its commit
DbUpdate(h) ==
    /\ ingest[h].pc = "update"
    /\ LET e == Cur(h)
           t == ingest[h].t
           hit == SoftMatches(rows, e, t)
           upd == UpdateStmt(rows, e, t)
       IN  IF hit = {}
           THEN /\ ingest' = [ingest EXCEPT ![h].pc = "insert"]
                /\ UNCHANGED rows
           ELSE IF UniqueOk(upd)
           THEN \* cursor.rowcount > 0: reported as not inserted
                /\ rows' = upd
                /\ ingest' = [ingest EXCEPT ![h].pc = "ret", ![h].res = FALSE,
                                            ![h].how = "soft"]
           ELSE \* IntegrityError: the statement is undone, except -> False
                /\ ingest' = [ingest EXCEPT ![h].pc = "ret", ![h].res = FALSE,
                                            ![h].how = "conflict"]
                /\ UNCHANGED rows
    /\ UNCHANGED <<now, adaptiveVars, streamVars, restVars, run>>

\* insert_trace, lines 96-114: INSERT OR IGNORE, commit, total_changes
DbInsert(h) ==
    /\ ingest[h].pc = "insert"
    /\ LET ins == InsertOrIgnore(rows, Cur(h), now)
           n == Len(ins) - Len(rows)
       IN  /\ rows' = ins
           /\ ingest' = [ingest EXCEPT
                 ![h].pc = "ret",
                 ![h].added = n,
                 ![h].slot = IF n > 0 THEN Len(ins) ELSE 0,
                 ![h].created = IF n > 0 THEN ins[Len(ins)].created_at ELSE 0,
                 ![h].how = IF n > 0 THEN "new" ELSE "ignored",
                 ![h].res = InsertResult(n)]
    /\ UNCHANGED <<now, adaptiveVars, streamVars, restVars, run>>

\* insert_trace, lines 115-116: a statement or commit raises inside the try
DbFault(h) ==
    /\ ingest[h].pc \in {"update", "insert"}
    /\ ingest' = [ingest EXCEPT ![h].pc = "ret", ![h].res = FALSE,
                                ![h].how = "fault"]
    /\ UNCHANGED <<now, rows, adaptiveVars, streamVars, restVars, run>>

\* Faulty variant, not the code: fan out whatever insert_trace returned
MutNotifyAlways(res) == TRUE

\* What insert_trace's caller does with the result. ingest_traces, lines
\* 51-53, and ingest_single_trace, lines 72-74: count and fan out an inserted
\* entry; then the next trace of the batch, or the response.
ShouldNotify(res) == res

IngestReturn(h) ==
    /\ ingest[h].pc = "ret"
    /\ LET e == Cur(h)
           r == ingest[h]
           ins == IF r.res THEN r.inserted + 1 ELSE r.inserted
           out == [res |-> r.res, how |-> r.how, t |-> r.t, slot |-> r.slot,
                   created |-> r.created,
                   stored |-> \E i \in DOMAIN rows : Triple(rows[i]) = Triple(e)]
       IN  /\ IF ShouldNotify(r.res)
              THEN /\ queues' = NotifyQueues(subscribers, queues, e)
                   /\ subscribers' = NotifySubs(subscribers, queues, e)
                   /\ subTs' = NotifyTs(subscribers, queues, subTs, e)
              ELSE UNCHANGED <<queues, subscribers, subTs>>
           /\ IF r.idx < Len(r.batch)
              THEN BeginInsert(h, r.kind, r.batch, r.idx + 1, ins,
                               Append(r.outs, out))
              ELSE ingest' = [ingest EXCEPT ![h] = IdleIngest]
    /\ UNCHANGED <<now, rows, adaptiveVars, stream, restVars, run>>

\* The exception of ConnectFault reaches the framework: the request fails
IngestAbort(h) ==
    /\ ingest[h].pc = "raised"
    /\ ingest' = [ingest EXCEPT ![h] = IdleIngest]
    /\ UNCHANGED <<now, rows, adaptiveVars, streamVars, restVars, run>>

\* cleanup_old_traces, from DELETE /cleanup or the maintenance loop
ForceCleanup ==
    /\ rows' = CleanupRows(rows, now)
    /\ deleted' = Len(rows) - Len(CleanupRows(rows, now))
    /\ UNCHANGED <<now, ingest, adaptiveVars, streamVars, issued, recentVars,
                   query, loop, sent, run,
                   clientVars>>

\* Time passes, up to one of the instants T.
Advance(T) ==
    /\ \E t \in T : t > now /\ now' = t
    /\ UNCHANGED <<storeVars, adaptiveVars, streamVars, restVars, run>>

\* notify_subscribers(trace), whoever calls it
Notify(e) ==
    /\ queues' = NotifyQueues(subscribers, queues, e)
    /\ subscribers' = NotifySubs(subscribers, queues, e)
    /\ subTs' = NotifyTs(subscribers, queues, subTs, e)
    /\ UNCHANGED <<now, storeVars, adaptiveVars, stream, restVars, run>>

\* ======================================================= traces by chain
IdleQuery == [pc |-> "idle", corr |-> "", prev |-> "", hint |-> FALSE]

\* =========================================================== live streams
IdleStream == [pc |-> "idle", corr |-> ""]

\* What the client of a stream has received: the kind of the last event
\* ("none" before the first), the stored rows replayed to it, and the last
\* entry that came from the stream's queue
NothingSent == [last |-> "none", replayed |-> {}, live |-> NoEntry]

\* event_generator, lines 178-180: for trace in existing: yield
Replayed(rs, c) == {Triple(RowsOf(rs, c)[i]) : i \in DOMAIN RowsOf(rs, c)}

\* stream_traces / event_generator, lines 176-180: the stored history of the
\* id is read and replayed
OpenStep(s, c) ==
    /\ stream[s].pc = "idle"
    /\ stream' = [stream EXCEPT ![s] = [pc |-> "replay", corr |-> c]]
    /\ UNCHANGED <<now, storeVars, adaptiveVars, subscribers, subTs, queues,
                   issued, recentVars, query, maintVars, run,
                   clientVars>>

StreamOpen(s, c) == OpenStep(s, c) /\ UNCHANGED sent

\* The same with a client that keeps a record of what it receives
WatchedOpen(s, c) ==
    /\ OpenStep(s, c)
    /\ sent' = [sent EXCEPT ![s] =
                   [last |-> IF Replayed(rows, c) = {} THEN "none"
                             ELSE "replay",
                    replayed |-> Replayed(rows, c), live |-> NoEntry]]

\* event_generator, line 183: queue = await subscribe(correlation_id)
StreamSubscribe(s) ==
    /\ stream[s].pc = "replay"
    /\ subscribers' = SubscribeSubs(subscribers, stream[s].corr, s)
    /\ subTs' = With(subTs, stream[s].corr, now)
    /\ queues' = [queues EXCEPT ![s] = <<>>]
    /\ stream' = [stream EXCEPT ![s].pc = "live"]
    /\ UNCHANGED <<now, storeVars, adaptiveVars, restVars, run>>

\* event_generator, lines 193-196: the deadline passes, finally: unsubscribe,
\* then line 196 yields the terminal marker {"type": "timeout"}
CloseStep(s) ==
    /\ stream[s].pc = "live"
    /\ subscribers' = UnsubscribeSubs(subscribers, stream[s].corr, s)
    /\ queues' = [queues EXCEPT ![s] = <<>>]
    /\ stream' = [stream EXCEPT ![s] = IdleStream]
    /\ UNCHANGED <<now, storeVars, adaptiveVars, subTs, issued, recentVars,
                   query, maintVars, run,
                   clientVars>>

StreamClose(s) == CloseStep(s) /\ UNCHANGED sent

\* The same with a client that keeps a record: the marker is the last event
WatchedClose(s) ==
    /\ CloseStep(s)
    /\ sent' = [sent EXCEPT ![s] = [NothingSent EXCEPT !.last = "marker"]]

\* event_generator, lines 188-189: queue.get() hands over the oldest entry,
\* which is sent to the client
GetStep(s) ==
    /\ stream[s].pc = "live"
    /\ queues[s] # <<>>
    /\ queues' = [queues EXCEPT ![s] = Tail(@)]
    /\ UNCHANGED <<now, storeVars, adaptiveVars, subscribers, subTs, stream,
                   issued, recentVars, query, maintVars, run,
                   clientVars>>

StreamGet(s) == GetStep(s) /\ UNCHANGED sent

\* The same with a client that keeps a record
WatchedGet(s) ==
    /\ GetStep(s)
    /\ sent' = [sent EXCEPT ![s].last = "trace", ![s].live = Head(queues[s])]

\* event_generator, lines 184-196: an exception inside the live loop; the
\* finally clause unsubscribes and the exception goes on. Nothing is yielded.
StreamFault(s) ==
    /\ stream[s].pc = "live"
    /\ subscribers' = UnsubscribeSubs(subscribers, stream[s].corr, s)
    /\ stream' = [stream EXCEPT ![s].pc = "failed"]
    /\ UNCHANGED <<now, storeVars, adaptiveVars, subTs, queues, restVars, run>>

\* The client disconnects and the generator is closed where it is suspended:
\* at a yield of the replay (nothing is registered yet) or inside the try
\* block of the live loop (finally: unsubscribe). Nothing is yielded.
StreamCancel(s) ==
    /\ stream[s].pc \in {"replay", "live"}
    /\ subscribers' = IF stream[s].pc = "live"
                      THEN UnsubscribeSubs(subscribers, stream[s].corr, s)
                      ELSE subscribers
    /\ stream' = [stream EXCEPT ![s].pc = "closed"]
    /\ UNCHANGED <<now, storeVars, adaptiveVars, subTs, queues, restVars, run>>

\* The request of a failed or closed stream is over
EndStep(s) ==
    /\ stream[s].pc \in {"failed", "closed"}
    /\ stream' = [stream EXCEPT ![s] = IdleStream]
    /\ queues' = [queues EXCEPT ![s] = <<>>]
    /\ UNCHANGED <<now, storeVars, adaptiveVars, subscribers, subTs, issued,
                   recentVars, query, maintVars, run,
                   clientVars>>

StreamEnd(s) == EndStep(s) /\ UNCHANGED sent

\* The same with a client that keeps a record: the record starts afresh
WatchedEnd(s) ==
    /\ EndStep(s)
    /\ sent' = [sent EXCEPT ![s] = NothingSent]

\* ============================================ adaptive sampling controller
\* get_state
get_state(st, c) == IF c \in DOMAIN st THEN st[c].state ELSE "cold"

\* get_trace_rate
get_trace_rate(st, c) ==
    IF get_state(st, c) = "hot" THEN HOT_RATE
    ELSE IF get_state(st, c) = "warm" THEN ADAPTIVE_WARM_RATE
    ELSE ADAPTIVE_COLD_RATE

\* mark_hot, lines 54-58: the entry written for the id
HotEntry(t) ==
    [state |-> "hot", expires_at |-> t + ADAPTIVE_HOT_TTL, queried_at |-> t]

\* Faulty variant, not the code: promoting a tracked id adds hot_ttl to its
\* deadline
MutMarkHotStacks(st, c, t) ==
    With(st, c, IF c \in DOMAIN st
                THEN [HotEntry(t) EXCEPT
                        !.expires_at = st[c].expires_at + ADAPTIVE_HOT_TTL]
                ELSE HotEntry(t))

\* mark_hot: the state map after the call at time t
mark_hot(st, c, t) == With(st, c, HotEntry(t))

\* Faulty variant, not the code: the promotion leaves the etag alone
MutMarkHotNoBump(e) == e

\* mark_hot, line 59: _config_etag += 1
MarkHotEtag(e) == e + 1

\* Faulty variant, not the code: if entry["expires_at"] >= now: continue
MutExpiredStrict(st, t) == {c \in DOMAIN st : ~(st[c].expires_at >= t)}

\* cooldown_tick, lines 92-94: the entries the loop does not skip
Expired(st, t) == {c \in DOMAIN st : ~(st[c].expires_at > t)}

\* cooldown_tick, line 105: changed
TickChanged(st, t) ==
    \E c \in Expired(st, t) : st[c].state \in {"hot", "warm"}

\* Faulty variant, not the code: the tick only removes expired WARM entries
MutCooldownOnlyRemoves(st, t) ==
    [c \in DOMAIN st \ {d \in Expired(st, t) : st[d].state = "warm"} |-> st[c]]

\* Faulty variant, not the code: a HOT entry whose WARM period would be over
\* as well is removed by the same tick
MutCooldownSkipsWarm(st, t) ==
    LET to_remove ==
            {c \in Expired(st, t) :
                \/ st[c].state = "warm"
                \/ st[c].expires_at + ADAPTIVE_WARM_TTL <= t}
    IN  [c \in DOMAIN st \ to_remove |->
            IF c \in Expired(st, t) /\ st[c].state = "hot"
            THEN [st[c] EXCEPT !.state = "warm",
                               !.expires_at = t + ADAPTIVE_WARM_TTL]
            ELSE st[c]]

\* cooldown_tick, lines 92-103: the state map after the tick at time t
cooldown_tick(st, t) ==
    LET to_remove == {c \in Expired(st, t) : st[c].state = "warm"}
    IN  [c \in DOMAIN st \ to_remove |->
            IF c \in Expired(st, t) /\ st[c].state = "hot"
            THEN [st[c] EXCEPT !.state = "warm",
                               !.expires_at = t + ADAPTIVE_WARM_TTL]
            ELSE st[c]]

\* Faulty variant, not the code: one bump for every id the tick transitions
MutTickEtagPerId(st, t, e) == e + Cardinality(Expired(st, t))

\* Faulty variant, not the code: the tick bumps the etag even when nothing
\* changed
MutTickEtagAlways(st, t, e) == e + 1

\* cooldown_tick, lines 105-106: one bump for the whole tick
TickEtag(st, t, e) == IF TickChanged(st, t) THEN e + 1 ELSE e

\* Faulty variant, not the code: disable forgets every tracked id
MutDisableClears(st, c) == IF c \in DOMAIN st THEN <<>> ELSE st

\* tracing_disable, lines 181-183
DisableState(st, c) == IF c \in DOMAIN st THEN Without(st, c) ELSE st

DisableEtag(st, c, e) == IF c \in DOMAIN st THEN e + 1 ELSE e

NoCall == [op |-> "none", id |-> "", ret |-> "", at |-> 0]

\* The calls recorded for an id are forgotten once the id has left the map.
RunAfter(st) == [c \in Corrs |-> IF c \in DOMAIN st THEN run[c] ELSE <<>>]

\* POST /tracing/enable/{corr_id}
TracingEnable(c) ==
    /\ etag < MaxEtag
    /\ adaptive' = mark_hot(adaptive, c, now)
    /\ etag' = MarkHotEtag(etag)
    /\ last' = [op |-> "enable", id |-> c, ret |-> get_state(adaptive, c),
                at |-> now]
    /\ UNCHANGED <<now, lastTick, storeVars, streamVars, restVars, run>>

\* GET /traces/{correlation_id}, lines 138-139 and the hint of lines 155-161:
\* ret is previous_state
GetTraces(c) ==
    /\ etag < MaxEtag
    /\ adaptive' = mark_hot(adaptive, c, now)
    /\ etag' = MarkHotEtag(etag)
    /\ last' = [op |-> "get_traces", id |-> c,
                ret |-> get_state(adaptive, c), at |-> now]
    /\ UNCHANGED <<now, lastTick, storeVars, streamVars, restVars, run>>

\* POST /tracing/disable/{corr_id}: ret is previous
TracingDisable(c) ==
    /\ adaptive' = DisableState(adaptive, c)
    /\ etag' = DisableEtag(adaptive, c, etag)
    /\ last' = [op |-> "disable", id |-> c, ret |-> get_state(adaptive, c),
                at |-> now]
    /\ run' = RunAfter(DisableState(adaptive, c))
    /\ UNCHANGED <<now, lastTick, storeVars, streamVars, restVars>>

\* cooldown_tick at the current time
Tick ==
    /\ adaptive' = cooldown_tick(adaptive, now)
    /\ etag' = TickEtag(adaptive, now, etag)
    /\ lastTick' = now
    /\ run' = RunAfter(cooldown_tick(adaptive, now))
    /\ UNCHANGED <<last, restVars>>

\* cleanup_loop (app.py): a tick whenever the loop wakes up
CooldownTick ==
    /\ Tick
    /\ UNCHANGED <<now, storeVars, streamVars>>

\* ------------------------------------------------ get_traces as a handler
\* Faulty variant, not the code: the hint goes out unless the id was HOT
MutHintNotHot(prev) == prev # "hot"

\* get_traces, line 155: if previous_state == "cold"
Hint(prev) == prev = "cold"

\* get_traces, lines 138-139: previous_state is read and the id is promoted,
\* with no await in between; the handler then awaits query_traces
QueryBegin(q, c) ==
    /\ query[q].pc \in {"idle", "done"}
    /\ etag < MaxEtag
    /\ adaptive' = mark_hot(adaptive, c, now)
    /\ etag' = MarkHotEtag(etag)
    /\ query' = [query EXCEPT ![q] =
                    [pc |-> "db", corr |-> c, prev |-> get_state(adaptive, c),
                     hint |-> FALSE]]
    /\ run' = [run EXCEPT ![c] = Append(@, get_state(adaptive, c))]
    /\ UNCHANGED <<now, last, lastTick, storeVars, streamVars, issued,
                   recentVars, maintVars, sent,
                   clientVars>>

\* get_traces, lines 141-162: the traces are back, the response is built
QueryRespond(q) ==
    /\ query[q].pc = "db"
    /\ query' = [query EXCEPT ![q].pc = "done",
                              ![q].hint = Hint(query[q].prev)]
    /\ UNCHANGED <<now, storeVars, adaptiveVars, streamVars, issued,
                   recentVars, maintVars, sent, run,
                   clientVars>>

\* ================================================================ /recent
RECENT_LIMIT == 30
RECENT_WINDOW == Sec(60)

\* get_recent_traces, line 89: sum(1 for t in window if now - t < 60)
RecentCount(w, t) == Cardinality({i \in DOMAIN w : t - w[i] < RECENT_WINDOW})

\* Faulty variant, not the code: if recent_count >= 30
MutRateLimitedAt30(recent_count) == recent_count >= RECENT_LIMIT

\* get_recent_traces, line 90: if recent_count > 30
RateLimited(recent_count) == recent_count > RECENT_LIMIT

\* GET /recent, lines 85-91: the call is appended to the window and counted,
\* then the window is measured and the call accepted or answered 429
RecentCall ==
    /\ Len(recentLog) < MaxRecent
    /\ LET w == Append(recentWindow, now)
       IN  /\ recentWindow' = w
           /\ recentRequests' = recentRequests + 1
           /\ recentLog' = Append(recentLog,
                  [t |-> now, ok |-> ~RateLimited(RecentCount(w, now))])
    /\ UNCHANGED <<now, storeVars, adaptiveVars, streamVars, issued, query,
                   maintVars, sent, run,
                   clientVars>>

\* Faulty variant, not the code: the trim keeps the entries younger than 30 s
MutTrimWindowHalf(w, t) == SelectSeq(w, LAMBDA x : 2 * (t - x) < RECENT_WINDOW)

\* cleanup_loop, line 46: [t for t in _recent_rate_window if now - t < 60]
TrimWindow(w, t) == SelectSeq(w, LAMBDA x : t - x < RECENT_WINDOW)

\* cleanup_loop, line 46: the window keeps the entries younger than 60 s
TrimRecent ==
    /\ recentWindow' = TrimWindow(recentWindow, now)
    /\ UNCHANGED <<now, storeVars, adaptiveVars, streamVars, issued, query,
                   maintVars, sent, run, recentRequests, recentLog,
                   clientVars>>

\* ========================================================= /tracing/config
\* Text is a sequence of one-character strings.
DigitChars == <<"0", "1", "2", "3", "4", "5", "6", "7", "8", "9">>
QuoteChar == "\""

\* str(n) for n >= 0: the decimal digits
RECURSIVE Str(_)
Str(n) ==
    IF n < 10 THEN <<DigitChars[n + 1]>>
    ELSE Append(Str(n \div 10), DigitChars[(n % 10) + 1])

\* f'"{etag_str}"'
Quoted(txt) == <<QuoteChar>> \o txt \o <<QuoteChar>>

\* txt.strip('"'): every leading and trailing quote goes
RECURSIVE Strip(_)
Strip(txt) ==
    IF txt = <<>> THEN txt
    ELSE IF Head(txt) = QuoteChar THEN Strip(Tail(txt))
    ELSE IF txt[Len(txt)] = QuoteChar THEN Strip(SubSeq(txt, 1, Len(txt) - 1))
    ELSE txt

\* get_state of every id
StateMap(st) == [c \in Corrs |-> get_state(st, c)]

NoToken == [token |-> <<>>, states |-> StateMap(<<>>), code |-> 0]

\* tracing_config, line 123: the If-None-Match test
NotModified(if_none_match, e) == Strip(if_none_match) = Str(e)

\* tracing_config, lines 126-141: the 200 answer carries the etag as the ETag
\* header; the client keeps it with what the answer said
ConfigAnswer ==
    [token |-> Quoted(Str(etag)), states |-> StateMap(adaptive), code |-> 200]

\* GET /tracing/config without If-None-Match
ConfigFetch ==
    /\ issued' = ConfigAnswer
    /\ UNCHANGED <<now, storeVars, adaptiveVars, streamVars, recentVars,
                   query, maintVars, sent, run,
                   clientVars>>

\* GET /tracing/config with the token held, sent as the ETag header came
\* (quoted) or as the body's "etag" field (bare)
ConfigRevalidate ==
    /\ issued.code # 0
    /\ \E hdr \in {issued.token, Strip(issued.token)} :
          issued' = IF NotModified(hdr, etag)
                    THEN [issued EXCEPT !.code = 304]
                    ELSE ConfigAnswer
    /\ UNCHANGED <<now, storeVars, adaptiveVars, streamVars, recentVars,
                   query, maintVars, sent, run,
                   clientVars>>

\* ======================================================== maintenance loop
STALE_AFTER == Sec(300)
SWEEP_EVERY == 6
RETENTION_EVERY == 360

\* cleanup_stale_subscribers, lines 66-70: the ids whose last subscribe is
\* older than the cutoff
Stale(ts, t) == {c \in DOMAIN ts : ts[c] < t - STALE_AFTER}

\* Faulty variant, not the code: the sweep drops the timestamps only
MutSweepSubsKeeps(subs, ts, t) == subs

\* cleanup_stale_subscribers, lines 71-73: del _subscribers[cid]
SweepSubs(subs, ts, t) == [c \in DOMAIN subs \ Stale(ts, t) |-> subs[c]]

\* cleanup_stale_subscribers, line 74: _subscriber_timestamps.pop(cid, None)
SweepTs(ts, t) == [c \in DOMAIN ts \ Stale(ts, t) |-> ts[c]]

\* cleanup_stale_subscribers at the current time
StaleSweep ==
    /\ subscribers' = SweepSubs(subscribers, subTs, now)
    /\ subTs' = SweepTs(subTs, now)
    /\ UNCHANGED <<now, storeVars, adaptiveVars, queues, stream, restVars,
                   run>>

\* cleanup_loop before its first sleep: tick = 0
IdleLoop == [pc |-> "sleep", tick |-> 0, did |-> <<>>]

\* Faulty variant, not the code: the sweep runs one tick late
MutSweepDueLate(n) == n % SWEEP_EVERY = 1

\* cleanup_loop, line 42: if tick % 6 == 0
SweepDue(n) == n % SWEEP_EVERY = 0

\* cleanup_loop, line 53: if tick % 360 == 0
RetentionDue(n) == n % RETENTION_EVERY = 0

\* cleanup_loop, line 37: await asyncio.sleep(ADAPTIVE_TICK_INTERVAL)
LoopSleep ==
    /\ loop.pc = "sleep"
    /\ loop.tick < MaxTick
    /\ now' = now + ADAPTIVE_TICK_INTERVAL
    /\ loop' = [loop EXCEPT !.pc = "work"]
    /\ UNCHANGED <<storeVars, adaptiveVars, streamVars, issued, recentVars,
                   query, deleted, sent, run,
                   clientVars>>

\* cleanup_loop, lines 38-51, which run without a suspension: tick += 1,
\* cooldown_tick(), and on a sweep tick cleanup_stale_subscribers() and the
\* trim of the /recent rate window
LoopWork ==
    /\ loop.pc = "work"
    /\ LET n == loop.tick + 1
       IN  /\ adaptive' = cooldown_tick(adaptive, now)
           /\ etag' = TickEtag(adaptive, now, etag)
           /\ lastTick' = now
           /\ run' = RunAfter(cooldown_tick(adaptive, now))
           /\ IF SweepDue(n)
              THEN /\ subscribers' = SweepSubs(subscribers, subTs, now)
                   /\ subTs' = SweepTs(subTs, now)
                   /\ recentWindow' = TrimWindow(recentWindow, now)
              ELSE UNCHANGED <<subscribers, subTs, recentWindow>>
           /\ loop' = [pc |-> IF RetentionDue(n) THEN "retention" ELSE "sleep",
                       tick |-> n,
                       did |-> <<"cooldown">> \o
                               (IF SweepDue(n) THEN <<"sweep", "trim">>
                                ELSE <<>>)]
    /\ UNCHANGED <<now, storeVars, last, queues, stream, sent, issued,
                   recentRequests, recentLog, query, deleted,
                   clientVars>>

\* cleanup_loop, line 54: deleted = await cleanup_old_traces()
LoopRetention ==
    /\ loop.pc = "retention"
    /\ rows' = CleanupRows(rows, now)
    /\ deleted' = Len(rows) - Len(CleanupRows(rows, now))
    /\ loop' = [loop EXCEPT !.pc = "sleep", !.did = Append(@, "retention")]
    /\ UNCHANGED <<now, ingest, adaptiveVars, streamVars, issued, recentVars,
                   query, sent, run,
                   clientVars>>

\* cleanup_loop, line 54: cleanup_old_traces raises (db.py lines 62-66: the
\* database cannot be opened or is locked). Nothing in the loop catches the
\* exception, so the task created at line 58 ends with it.
LoopRetentionFault ==
    /\ loop.pc = "retention"
    /\ loop' = [loop EXCEPT !.pc = "dead", !.did = Append(@, "retention")]
    /\ UNCHANGED <<now, storeVars, adaptiveVars, streamVars, issued, recentVars,
                   query, deleted, sent, run,
                   clientVars>>

\* ===================================================== the client (client.py)
\* TraceHubClient with a base_url and httpx present, so that __init__ has
\* started the sender thread. Application threads call send(), flush() and
\* close(); the sender thread runs _sender_loop. The threads interleave
\* between any two statements; queue.Queue is thread-safe, so each queue
\* operation is one step. An entry is the ordinal of the send() call that
\* was given it.

\* flush_interval, in clock units (TRACEHUB_FLUSH_INTERVAL, 1.0 s)
TRACEHUB_FLUSH_INTERVAL == Sec(1)
\* flush(): deadline = time.time() + 5.0
FLUSH_DEADLINE == Sec(5)
\* close(): self._thread.join(timeout=2.0)
JOIN_TIMEOUT == Sec(2)

\* _sender_loop as the thread starts: batch = [], last_flush = time.time()
IdleSender == [pc |-> "test", batch |-> <<>>, last_flush |-> 0]
\* An application thread outside any call, nothing returned to it yet
IdleCaller == [pc |-> "idle", entry |-> 0, deadline |-> 0, before |-> {},
               ret |-> [op |-> "none", early |-> FALSE, before |-> {}]]

\* send(), line 196: the test of self._running; a closed client drops the
\* entry without a word
SendCheck(t) ==
    /\ caller[t].pc = "idle"
    /\ made < MaxSends
    /\ made' = made + 1
    /\ caller' = [caller EXCEPT ![t].pc = IF running THEN "put" ELSE "idle",
                                ![t].entry = IF running THEN made + 1 ELSE 0]
    /\ UNCHANGED <<now, running, queue, sender, placed, handed,
                   storeVars, adaptiveVars, streamVars, issued, recentVars,
                   query, maintVars, sent, run>>

\* send(), line 197: self._queue.put(entry)
SendPut(t) ==
    /\ caller[t].pc = "put"
    /\ queue' = Append(queue, caller[t].entry)
    /\ placed' = placed \cup {caller[t].entry}
    /\ caller' = [caller EXCEPT ![t].pc = "idle", ![t].entry = 0]
    /\ UNCHANGED <<now, running, sender, made, handed,
                   storeVars, adaptiveVars, streamVars, issued, recentVars,
                   query, maintVars, sent, run>>

\* flush(), lines 201-205: the thread exists, the deadline is set
FlushBegin(t) ==
    /\ caller[t].pc = "idle"
    /\ caller' = [caller EXCEPT ![t].pc = "flush",
                                ![t].deadline = now + FLUSH_DEADLINE,
                                ![t].before = placed]
    /\ UNCHANGED <<now, running, queue, sender, made, placed, handed,
                   storeVars, adaptiveVars, streamVars, issued, recentVars,
                   query, maintVars, sent, run>>

\* flush(), lines 206-207: the loop ends once the queue is empty or the
\* deadline has passed, and flush() returns
FlushReturn(t) ==
    /\ caller[t].pc = "flush"
    /\ queue = <<>> \/ now >= caller[t].deadline
    /\ caller' = [caller EXCEPT ![t].pc = "idle",
                                ![t].ret = [op |-> "flush",
                                            early |-> now < caller[t].deadline,
                                            before |-> caller[t].before]]
    /\ UNCHANGED <<now, running, queue, sender, made, placed, handed,
                   storeVars, adaptiveVars, streamVars, issued, recentVars,
                   query, maintVars, sent, run>>

\* close(), line 211
CloseBegin(t) ==
    /\ caller[t].pc = "idle"
    /\ running' = FALSE
    /\ caller' = [caller EXCEPT ![t].pc = "join",
                                ![t].deadline = now + JOIN_TIMEOUT]
    /\ UNCHANGED <<now, queue, sender, made, placed, handed,
                   storeVars, adaptiveVars, streamVars, issued, recentVars,
                   query, maintVars, sent, run>>

\* close(), lines 212-213: join returns when the thread has ended or after
\* the timeout
CloseJoin(t) ==
    /\ caller[t].pc = "join"
    /\ sender.pc = "exited" \/ now >= caller[t].deadline
    /\ caller' = [caller EXCEPT ![t].pc = "idle",
                                ![t].ret = [op |-> "close", early |-> FALSE,
                                            before |-> {}]]
    /\ UNCHANGED <<now, running, queue, sender, made, placed, handed,
                   storeVars, adaptiveVars, streamVars, issued, recentVars,
                   query, maintVars, sent, run>>

\* _sender_loop, line 134: while self._running or not self._queue.empty()
SenderTest ==
    /\ sender.pc = "test"
    /\ sender' = [sender EXCEPT
                    !.pc = IF running \/ queue # <<>> THEN "get" ELSE "final"]
    /\ UNCHANGED <<now, running, queue, caller, made, placed, handed,
                   storeVars, adaptiveVars, streamVars, issued, recentVars,
                   query, maintVars, sent, run>>

\* _sender_loop, lines 138-139: an entry is taken and joins the batch
SenderGet ==
    /\ sender.pc = "get"
    /\ queue # <<>>
    /\ queue' = Tail(queue)
    /\ sender' = [sender EXCEPT !.pc = "decide",
                                !.batch = Append(@, Head(queue))]
    /\ UNCHANGED <<now, running, caller, made, placed, handed,
                   storeVars, adaptiveVars, streamVars, issued, recentVars,
                   query, maintVars, sent, run>>

\* _sender_loop, lines 138 and 140-141: the queue stayed empty for the
\* timeout of the get
SenderEmpty ==
    /\ sender.pc = "get"
    /\ queue = <<>>
    /\ sender' = [sender EXCEPT !.pc = "decide"]
    /\ UNCHANGED <<now, running, queue, caller, made, placed, handed,
                   storeVars, adaptiveVars, streamVars, issued, recentVars,
                   query, maintVars, sent, run>>

\* _sender_loop, lines 145-148
should_flush(batch, last_flush, t) ==
    \/ Len(batch) >= BatchSize
    \/ batch # <<>> /\ t - last_flush >= TRACEHUB_FLUSH_INTERVAL

\* _sender_loop, lines 144-153: the batch is passed to _send_batch when it
\* is full or old enough, and the loop goes round
SenderDecide ==
    /\ sender.pc = "decide"
    /\ IF should_flush(sender.batch, sender.last_flush, now) /\ sender.batch # <<>>
       THEN /\ handed' = handed \cup Range(sender.batch)
            /\ sender' = [pc |-> "test", batch |-> <<>>, last_flush |-> now]
       ELSE /\ handed' = handed
            /\ sender' = [sender EXCEPT !.pc = "test"]
    /\ UNCHANGED <<now, running, queue, caller, made, placed,
                   storeVars, adaptiveVars, streamVars, issued, recentVars,
                   query, maintVars, sent, run>>

\* _sender_loop, lines 160-161: the final flush, and the thread ends
SenderFinal ==
    /\ sender.pc = "final"
    /\ handed' = handed \cup Range(sender.batch)
    /\ sender' = [sender EXCEPT !.pc = "exited", !.batch = <<>>]
    /\ UNCHANGED <<now, running, queue, caller, made, placed,
                   storeVars, adaptiveVars, streamVars, issued, recentVars,
                   query, maintVars, sent, run>>

\* ========================================================== specifications
Init ==
    /\ now = 0
    /\ rows = <<>>
    /\ ingest = [h \in Handlers |-> IdleIngest]
    /\ adaptive = <<>>
    /\ etag = 0
    /\ last = NoCall
    /\ subscribers = <<>>
    /\ subTs = <<>>
    /\ queues = [s \in Streams |-> <<>>]
    /\ stream = [s \in Streams |-> IdleStream]
    /\ lastTick = 0
    /\ issued = NoToken
    /\ recentWindow = <<>>
    /\ recentRequests = 0
    /\ recentLog = <<>>
    /\ query = [q \in Readers |-> IdleQuery]
    /\ run = [c \in Corrs |-> <<>>]
    /\ sent = [s \in Streams |-> NothingSent]
    /\ loop = IdleLoop
    /\ deleted = 0
    /\ running = TRUE
    /\ queue = <<>>
    /\ sender = IdleSender
    /\ caller = [t \in Threads |-> IdleCaller]
    /\ made = 0
    /\ placed = {}
    /\ handed = {}

\* The instants observed by the controller's specification.
AdaptiveTimes ==
    Around({0, ADAPTIVE_HOT_TTL, ADAPTIVE_HOT_TTL + ADAPTIVE_WARM_TTL})

IngestStep(h) ==
    \/ ConnectFault(h)
    \/ DbUpdate(h)
    \/ DbInsert(h)
    \/ DbFault(h)
    \/ IngestReturn(h)
    \/ IngestAbort(h)

\* One ingest handler at a time submitting one entry, or two entries one
\* after the other; no retention sweep.
NextSeq ==
    \/ \E e \in Entries : IngestSingle("h1", e)
    \/ \E e1, e2 \in Entries : IngestBatch("h1", <<e1, e2>>)
    \/ IngestStep("h1")
    \/ Advance(SeqTimes)

SpecSeq == Init /\ [][NextSeq]_vars

\* Concurrent ingest handlers and the retention sweep.
NextStore ==
    \/ \E h \in Handlers, e \in Entries : IngestSingle(h, e)
    \/ \E h \in Handlers : IngestStep(h)
    \/ ForceCleanup
    \/ Advance(StoreTimes)

SpecStore == Init /\ [][NextStore]_vars

\* The controller: promotions, disables and cooldown ticks at any instant.
NextAdaptive ==
    \/ \E c \in Corrs : TracingEnable(c)
    \/ \E c \in Corrs : GetTraces(c)
    \/ \E c \in Corrs : TracingDisable(c)
    \/ CooldownTick
    \/ Advance(AdaptiveTimes)

SpecAdaptive == Init /\ [][NextAdaptive]_vars

\* Concurrent chain queries, with enable, disable and decay.
NextQuery ==
    \/ \E q \in Readers, c \in Corrs : QueryBegin(q, c)
    \/ \E q \in Readers : QueryRespond(q)
    \/ \E c \in Corrs : TracingEnable(c)
    \/ \E c \in Corrs : TracingDisable(c)
    \/ CooldownTick
    \/ Advance({0, ADAPTIVE_HOT_TTL, ADAPTIVE_HOT_TTL + ADAPTIVE_WARM_TTL})

SpecQuery == Init /\ [][NextQuery]_vars

\* /recent calls just inside and just outside one 60 s window, with the
\* maintenance loop's trim.
RecentTimes == {0, RECENT_WINDOW - 1, RECENT_WINDOW}

NextRecent ==
    \/ RecentCall
    \/ TrimRecent
    \/ Advance(RecentTimes)

SpecRecent == Init /\ [][NextRecent]_vars

\* Live streams on every exit path, fed by notify_subscribers: listener s1
\* reads at any pace, so that its queue can fill up; listener s2 reads before
\* more than MaxBacklog entries wait in its queue.
NotifyEntries ==
    {Entry("WK", "c1", 1000, "a", "->", "/foo"),
     Entry("WK", "c2", 1000, "a", "->", "/foo")}

NextBroadcast ==
    \/ \E s \in Streams, c \in Corrs : StreamOpen(s, c)
    \/ \E s \in Streams : StreamSubscribe(s)
    \/ \E s \in Streams : StreamGet(s)
    \/ \E s \in Streams : StreamClose(s)
    \/ \E s \in Streams : StreamFault(s)
    \/ \E s \in Streams : StreamCancel(s)
    \/ \E s \in Streams : StreamEnd(s)
    \/ \E e \in NotifyEntries : Len(queues["s2"]) <= MaxBacklog /\ Notify(e)

SpecBroadcast == Init /\ [][NextBroadcast]_vars

\* The controller with a client that polls /tracing/config.
NextConfig ==
    \/ \E c \in Corrs : TracingEnable(c)
    \/ \E c \in Corrs : GetTraces(c)
    \/ \E c \in Corrs : TracingDisable(c)
    \/ CooldownTick
    \/ Advance({0, ADAPTIVE_HOT_TTL, ADAPTIVE_HOT_TTL + ADAPTIVE_WARM_TTL})
    \/ ConfigFetch
    \/ ConfigRevalidate

SpecConfig == Init /\ [][NextConfig]_vars

\* Readers: chain queries and live streams, with the controller's decay.
NextRead ==
    \/ \E c \in Corrs : GetTraces(c)
    \/ \E s \in Streams, c \in Corrs : StreamOpen(s, c)
    \/ \E s \in Streams : StreamSubscribe(s)
    \/ \E s \in Streams : StreamClose(s)
    \/ CooldownTick
    \/ Advance({0, ADAPTIVE_HOT_TTL})

SpecRead == Init /\ [][NextRead]_vars

\* Both ingest paths with live listeners.
FanEntries == {e \in Entries : e.suffix = "a"}
FanBatches == UNION {[1..n -> FanEntries] : n \in 1..MaxBatch}

NextIngest ==
    \/ \E e \in FanEntries : IngestSingle("h1", e)
    \/ \E b \in FanBatches : IngestBatch("h1", b)
    \/ IngestStep("h1")
    \/ \E s \in Streams, c \in Corrs : StreamOpen(s, c)
    \/ \E s \in Streams : StreamSubscribe(s)
    \/ \E s \in Streams : StreamClose(s)

SpecIngest == Init /\ [][NextIngest]_vars

\* One id, promoted once during the first tick period, then left alone while
\* the maintenance loop ticks every ADAPTIVE_TICK_INTERVAL without drift.
DecayEnd == ADAPTIVE_HOT_TTL + ADAPTIVE_WARM_TTL + 3 * ADAPTIVE_TICK_INTERVAL

DecayMark ==
    /\ last.op = "none"
    /\ lastTick = 0
    /\ GetTraces("c1")

DecayTick ==
    /\ now = lastTick + ADAPTIVE_TICK_INTERVAL
    /\ Tick
    /\ UNCHANGED <<now, storeVars, streamVars>>

DecayAdvance ==
    /\ now < lastTick + ADAPTIVE_TICK_INTERVAL
    /\ now < DecayEnd
    /\ now' = now + 1
    /\ UNCHANGED <<storeVars, adaptiveVars, streamVars, restVars, run>>

NextDecay == DecayMark \/ DecayTick \/ DecayAdvance

SpecDecay == Init /\ [][NextDecay]_vars

\* Listeners fed with entries stamped with the instant of their notify call,
\* so that the stamps tell the order of the calls, their clients keeping a
\* record; no listener lets more than MaxBacklog entries wait.
OrderTimes == 0..MaxStamp
OrderEntries == {Entry("WK", c, t, "a", "->", "/foo") : c \in Corrs,
                                                       t \in OrderTimes}
NextOrder ==
    \/ \E s \in Streams, c \in Corrs : WatchedOpen(s, c)
    \/ \E s \in Streams : StreamSubscribe(s)
    \/ \E s \in Streams : WatchedGet(s)
    \/ \E s \in Streams : WatchedClose(s)
    \/ \E e \in OrderEntries :
          /\ e.timestamp = now
          /\ \A s \in Streams : Len(queues[s]) <= MaxBacklog
          /\ Notify(e)
    \/ Advance(OrderTimes)

SpecOrder == Init /\ [][NextOrder]_vars

\* One ingest handler, submitting one entry or two, and the retention sweep,
\* over the instants of the first seconds and the instant one second past
\* the horizon.
RetentionTimes == (0..Sec(2)) \cup {RETENTION + Sec(1)}
RetentionEntries == {e \in Entries : e.suffix = "a" /\ e.direction = "->"}

NextRetention ==
    \/ \E e \in RetentionEntries : IngestSingle("h1", e)
    \/ \E e1, e2 \in RetentionEntries : IngestBatch("h1", <<e1, e2>>)
    \/ IngestStep("h1")
    \/ ForceCleanup
    \/ Advance(RetentionTimes)

SpecRetention == Init /\ [][NextRetention]_vars

\* Live streams that stay open across stale-subscriber sweeps. No listener
\* lets more than MaxBacklog entries wait, so no queue is ever full.
SweepTimes == Around({0, STALE_AFTER})

NextSweep ==
    \/ \E s \in Streams, c \in Corrs : StreamOpen(s, c)
    \/ \E s \in Streams : StreamSubscribe(s)
    \/ \E s \in Streams : StreamGet(s)
    \/ \E s \in Streams : StreamClose(s)
    \/ \E e \in NotifyEntries :
          /\ \A s \in Streams : Len(queues[s]) <= MaxBacklog
          /\ Notify(e)
    \/ StaleSweep
    \/ Advance(SweepTimes)

SpecSweep == Init /\ [][NextSweep]_vars

\* The registry under all four of its operations: listener s1 reads at any
\* pace, so that its queue can fill up and notify_subscribers drops it;
\* listener s2 reads before more than MaxBacklog entries wait in its queue.
NextRegistry ==
    \/ \E s \in Streams, c \in Corrs : StreamOpen(s, c)
    \/ \E s \in Streams : StreamSubscribe(s)
    \/ \E s \in Streams : StreamGet(s)
    \/ \E s \in Streams : StreamClose(s)
    \/ \E e \in NotifyEntries : Len(queues["s2"]) <= MaxBacklog /\ Notify(e)
    \/ StaleSweep
    \/ Advance({0, STALE_AFTER, STALE_AFTER + 1})

SpecRegistry == Init /\ [][NextRegistry]_vars

\* One client, its sender thread and two application threads that send,
\* flush and close in any order.
NextClient ==
    \/ \E t \in Threads : SendCheck(t)
    \/ \E t \in Threads : SendPut(t)
    \/ \E t \in Threads : FlushBegin(t)
    \/ \E t \in Threads : FlushReturn(t)
    \/ \E t \in Threads : CloseBegin(t)
    \/ \E t \in Threads : CloseJoin(t)
    \/ SenderTest
    \/ SenderGet
    \/ SenderEmpty
    \/ SenderDecide
    \/ SenderFinal
    \/ Advance({0, TRACEHUB_FLUSH_INTERVAL, JOIN_TIMEOUT, FLUSH_DEADLINE})

SpecClient == Init /\ [][NextClient]_vars

\* The maintenance loop on its own, from start-up through its first
\* retention sweep, which may fail.
NextLoop ==
    \/ LoopSleep
    \/ LoopWork
    \/ LoopRetention
    \/ LoopRetentionFault

SpecLoop == Init /\ [][NextLoop]_vars

\* Streams on every exit path, their clients keeping a record; no listener
\* lets more than MaxBacklog entries wait.
NextWatch ==
    \/ \E s \in Streams, c \in Corrs : WatchedOpen(s, c)
    \/ \E s \in Streams : StreamSubscribe(s)
    \/ \E s \in Streams : WatchedGet(s)
    \/ \E s \in Streams : WatchedClose(s)
    \/ \E s \in Streams : StreamFault(s)
    \/ \E s \in Streams : StreamCancel(s)
    \/ \E s \in Streams : WatchedEnd(s)
    \/ \E e \in NotifyEntries :
          /\ \A s \in Streams : Len(queues[s]) <= MaxBacklog
          /\ Notify(e)

SpecWatch == Init /\ [][NextWatch]_vars

\* An ingest handler racing with stream handlers that replay the stored
\* history, subscribe and poll their queues, their clients keeping a record.
NextReplay ==
    \/ \E e \in FanEntries : IngestSingle("h1", e)
    \/ IngestStep("h1")
    \/ \E s \in Streams, c \in Corrs : WatchedOpen(s, c)
    \/ \E s \in Streams : StreamSubscribe(s)
    \/ \E s \in Streams : WatchedGet(s)
    \/ \E s \in Streams : WatchedClose(s)

SpecReplay == Init /\ [][NextReplay]_vars

\* ================================================================= claims
StoredAs(e) == {i \in DOMAIN rows : Triple(rows[i]) = Triple(e)}

\* The handler's second insert_trace call has returned and both calls were
\* given the same entry.
SecondOfSame(h) ==
    /\ ingest[h].pc = "ret"
    /\ ingest[h].idx = 2
    /\ ingest[h].batch[1] = ingest[h].batch[2]

C2_UniqueTriples ==
    \A i \in DOMAIN rows : \A j \in DOMAIN rows :
        (rows[i].correlation_id = rows[j].correlation_id
         /\ rows[i].timestamp = rows[j].timestamp
         /\ rows[i].suffix = rows[j].suffix) => i = j

\* A soft-duplicate refresh that would have put a row on a stored triple was
\* undone.
C2_Witness ==
    \E h \in Handlers :
        /\ ingest[h].pc = "ret"
        /\ ingest[h].how = "conflict"
        /\ Len(rows) >= 2

\* The handler's second call has returned; the two entries share the
\* soft-dedup key and differ in timestamp.
SoftPair(h) ==
    /\ ingest[h].pc = "ret"
    /\ ingest[h].idx = 2
    /\ SoftKey(ingest[h].batch[1]) = SoftKey(ingest[h].batch[2])
    /\ ingest[h].batch[1].timestamp # ingest[h].batch[2].timestamp

Later(a, b) == IF a > b THEN a ELSE b

\* C3 as stated: two entries with one soft-dedup key and different timestamps
\* submitted within 5 minutes of each other, in either order, collapse to one
\* row (the first one's, no row added) carrying the later timestamp.
C3_AsStated ==
    \A h \in Handlers :
        (/\ SoftPair(h)
         /\ ingest[h].outs[1].how = "new"
         /\ ingest[h].how # "fault"
         /\ ingest[h].t - ingest[h].outs[1].t < SOFT_WINDOW)
        => /\ ingest[h].added = 0
           /\ rows[ingest[h].outs[1].slot].timestamp =
                 Later(ingest[h].batch[1].timestamp,
                       ingest[h].batch[2].timestamp)

\* C3, amended: when the second entry is submitted, with no other write in
\* between, less than 300 s after the storage time of the row inserted for the
\* first (the whole second of its insertion), it adds no row and returns
\* false, and the first's row carries the timestamp of the entry submitted
\* second, later or not; only when that rewrite would repeat a stored triple,
\* or the statement faults, the row keeps the first's timestamp.
C3_SoftDedup ==
    \A h \in Handlers :
        (/\ SoftPair(h)
         /\ ingest[h].outs[1].how = "new"
         /\ ingest[h].outs[1].created > ingest[h].t - SOFT_WINDOW)
        => LET r == rows[ingest[h].outs[1].slot]
           IN  /\ ingest[h].res = FALSE
               /\ ingest[h].added = 0
               /\ ingest[h].how \in {"soft", "conflict", "fault"}
               /\ ingest[h].how = "soft"
                    => /\ r.timestamp = ingest[h].batch[2].timestamp
                       /\ r.created_at = ingest[h].t
               /\ ingest[h].how # "soft"
                    => r.timestamp = ingest[h].batch[1].timestamp

\* The entry with the earlier timestamp was submitted second, some time after
\* the first, and the row now carries the earlier timestamp.
C3_Witness ==
    /\ SoftPair("h1")
    /\ ingest["h1"].outs[1].how = "new"
    /\ ingest["h1"].how = "soft"
    /\ ingest["h1"].t > ingest["h1"].outs[1].t
    /\ ingest["h1"].batch[2].timestamp < ingest["h1"].batch[1].timestamp
    /\ rows[ingest["h1"].outs[1].slot].timestamp
          = ingest["h1"].batch[2].timestamp

\* C4 as stated: insert returns true only when the call added exactly one row,
\* a call that returns false added none, and no call lets an error out.
C4_AsStated ==
    \A h \in Handlers :
        /\ ingest[h].pc = "ret"
             => /\ ingest[h].res => ingest[h].added = 1
                /\ ~ingest[h].res => ingest[h].added = 0
        /\ ingest[h].pc # "raised"

\* C5: a return of insert_trace fans the entry out, once, to the listeners of
\* its correlation id exactly when it returned true, after the call stored the
\* row; a call that returned false changes no queue, and no queue grows in any
\* other step.
C5_FanOutIffInserted ==
    [][/\ \A h \in Handlers :
            (ingest[h].pc = "ret" /\ ingest'[h] # ingest[h])
            => LET e == Cur(h)
                   c == e.correlation_id
                   L == IF c \in DOMAIN subscribers
                        THEN Range(subscribers[c]) ELSE {}
               IN  IF ingest[h].res
                   THEN /\ ingest[h].added = 1
                        /\ \A s \in Streams :
                             queues'[s] =
                               IF s \in L /\ Len(queues[s]) < QUEUE_MAXSIZE
                               THEN Append(queues[s], e) ELSE queues[s]
                   ELSE queues' = queues
       /\ \A s \in Streams :
            Len(queues'[s]) > Len(queues[s])
            => \E h \in Handlers :
                 /\ ingest[h].pc = "ret"
                 /\ ingest'[h] # ingest[h]
                 /\ ingest[h].res
      ]_vars

\* An inserted entry sits in a live listener's queue while a batch entry that
\* was reported a duplicate is about to return for the same correlation id.
C5_Witness ==
    /\ stream["s1"].pc = "live"
    /\ queues["s1"] # <<>>
    /\ ingest["h1"].pc = "ret"
    /\ ingest["h1"].kind = "batch"
    /\ ~ingest["h1"].res
    /\ Cur("h1").correlation_id = stream["s1"].corr

\* ---------------------------------------------------------------- decay
Marked == last.op # "none"
T0 == last.at
\* every tick due at or before now has run
TicksDone == now < lastTick + ADAPTIVE_TICK_INTERVAL
StateOf(c) == get_state(adaptive, c)

\* C6 as stated: HOT through t0+299s, WARM from the first tick at/after
\* t0+300s through t0+1799s, and absent at every time from t0+1800s on (once
\* the tick due at that time has run).
C6_AsStated ==
    Marked =>
        /\ now <= T0 + Sec(299) => StateOf("c1") = "hot"
        /\ (lastTick >= T0 + Sec(300) /\ now <= T0 + Sec(1799))
              => StateOf("c1") = "warm"
        /\ (now >= T0 + Sec(1800) /\ TicksDone) => StateOf("c1") = "cold"

\* C6, amended: HOT until the first tick at/after t0+300s, WARM from that
\* tick through t0+1799s, absent from the first tick at/after t0+1800s on;
\* that tick comes up to one tick interval after t0+1800s (the WARM deadline
\* is counted from the tick that made the id WARM), so the id is absent at
\* every time from t0+1810s on.
C6_Decay ==
    Marked =>
        /\ now <= T0 + Sec(299) => StateOf("c1") = "hot"
        /\ lastTick < T0 + ADAPTIVE_HOT_TTL => StateOf("c1") = "hot"
        /\ (lastTick >= T0 + Sec(300) /\ now <= T0 + Sec(1799))
              => StateOf("c1") = "warm"
        /\ lastTick >= T0 + Sec(1800) => StateOf("c1") = "cold"
        /\ now >= T0 + Sec(1800) + ADAPTIVE_TICK_INTERVAL
              => StateOf("c1") = "cold"

\* The id, marked between two ticks, has decayed to COLD.
C6_Witness ==
    /\ Marked
    /\ T0 % ADAPTIVE_TICK_INTERVAL # 0
    /\ lastTick >= T0 + Sec(1800)
    /\ StateOf("c1") = "cold"

\* ------------------------------------------------------------ controller
IsHotUntil(st, c, t) ==
    /\ c \in DOMAIN st
    /\ st[c].state = "hot"
    /\ st[c].expires_at = t

\* C7: a promotion at time t (enable or chain query) leaves the id HOT with
\* expires_at = t + hot_ttl whatever its state and deadline before, and
\* returns the state it had before.
C7_MarkHot ==
    [][\A c \in Corrs :
        (TracingEnable(c) \/ GetTraces(c))
        => /\ IsHotUntil(adaptive', c, now + ADAPTIVE_HOT_TTL)
           /\ last'.ret = StateOf(c)
           /\ last'.ret \in {"hot", "warm", "cold"}
      ]_vars

\* A WARM id was queried and is HOT again with a fresh deadline.
C7_Witness ==
    /\ last.op = "get_traces"
    /\ last.ret = "warm"
    /\ last.at = now
    /\ IsHotUntil(adaptive, last.id, now + ADAPTIVE_HOT_TTL)

\* C8 as stated: every read of an id's history, by the chain query or by
\* opening a live stream, leaves the id HOT with expires_at = now + hot_ttl.
C8_AsStated ==
    [][\A c \in Corrs :
        (GetTraces(c) \/ \E s \in Streams : StreamOpen(s, c))
        => IsHotUntil(adaptive', c, now + ADAPTIVE_HOT_TTL)
      ]_vars

\* C9: disable removes the id at once whatever its state and remaining TTL
\* (get_state COLD, get_trace_rate the COLD rate), changes neither the map nor
\* the etag when the id was already COLD, and touches no other id.
C9_Disable ==
    [][\A c \in Corrs :
        TracingDisable(c)
        => /\ c \notin DOMAIN adaptive'
           /\ get_state(adaptive', c) = "cold"
           /\ get_trace_rate(adaptive', c) = ADAPTIVE_COLD_RATE
           /\ c \notin DOMAIN adaptive => (adaptive' = adaptive /\ etag' = etag)
           /\ \A d \in Corrs \ {c} :
                /\ (d \in DOMAIN adaptive) = (d \in DOMAIN adaptive')
                /\ d \in DOMAIN adaptive => adaptive'[d] = adaptive[d]
      ]_vars

\* A HOT id with TTL left was disabled while another id stays tracked.
C9_Witness ==
    /\ last.op = "disable"
    /\ last.ret = "hot"
    /\ last.at = now
    /\ last.id \notin DOMAIN adaptive
    /\ \E d \in DOMAIN adaptive : adaptive[d].expires_at > now

\* C10: the etag never decreases, grows in every step that changes some id's
\* state, and is unchanged by a cooldown tick that changes no id's state.
C10_EtagMonotonic ==
    [][/\ etag' >= etag
       /\ (\E c \in Corrs : get_state(adaptive', c) # StateOf(c))
            => etag' > etag
       /\ (lastTick' # lastTick /\ \A c \in Corrs :
                                     get_state(adaptive', c) = StateOf(c))
            => etag' = etag
      ]_vars

\* A tick has just turned a HOT id WARM, after an earlier tick that found
\* nothing to do.
C10_Witness ==
    /\ lastTick = now
    /\ etag >= 2
    /\ \E c \in DOMAIN adaptive :
         /\ adaptive[c].state = "warm"
         /\ adaptive[c].expires_at = now + ADAPTIVE_WARM_TTL

\* C11: a cooldown tick that transitions at least one id, HOT to WARM or WARM
\* to removed, raises the etag by exactly 1 however many ids it transitions.
C11_OneBumpPerTick ==
    [][(CooldownTick /\ \E c \in Corrs : get_state(adaptive', c) # StateOf(c))
       => etag' = etag + 1
      ]_vars

\* One tick has just turned both ids from HOT to WARM.
C11_Witness ==
    /\ lastTick = now
    /\ DOMAIN adaptive = Corrs
    /\ \A c \in Corrs :
         /\ adaptive[c].state = "warm"
         /\ adaptive[c].expires_at = now + ADAPTIVE_WARM_TTL

\* C12: whenever /tracing/config answers 304 to the token the client holds,
\* and whenever that token still equals the etag, every id's state is what
\* it was when the token was issued.
C12_EtagSound ==
    [][/\ (ConfigRevalidate /\ issued'.code = 304)
            => issued.states = StateMap(adaptive)
       /\ (issued'.code # 0 /\ Strip(issued'.token) = Str(etag'))
            => issued'.states = StateMap(adaptive')
      ]_vars

\* A 304 was answered after the controller had changed states and the client
\* had fetched again.
C12_Witness ==
    /\ issued.code = 304
    /\ etag >= 2
    /\ \E c \in Corrs : issued.states[c] = "warm"

\* C13: right after a cooldown tick every id in the state map is HOT or WARM
\* with expires_at later than the time the tick used, and no HOT entry whose
\* expires_at had been reached at the tick is still HOT.
C13_AfterTick ==
    [][CooldownTick
       => \A c \in DOMAIN adaptive' :
            /\ adaptive'[c].state \in {"hot", "warm"}
            /\ adaptive'[c].expires_at > now
            /\ (c \in DOMAIN adaptive /\ adaptive[c].state = "hot"
                  /\ adaptive[c].expires_at <= now)
                 => adaptive'[c].state # "hot"
      ]_vars

\* A tick at the very expiry instant of one HOT id has made it WARM and has
\* left a younger HOT id alone.
C13_Witness ==
    /\ lastTick = now
    /\ \E c \in DOMAIN adaptive :
         /\ adaptive[c].state = "warm"
         /\ adaptive[c].expires_at = now + ADAPTIVE_WARM_TTL
         /\ adaptive[c].queried_at + ADAPTIVE_HOT_TTL = now
    /\ \E d \in DOMAIN adaptive :
         /\ adaptive[d].state = "hot"
         /\ adaptive[d].expires_at > now

\* ---------------------------------------------------------- adaptive hint
\* Every response carries the hint exactly when the id was COLD right before
\* the query promoted it.
HintIffCold ==
    \A q \in Readers :
        query[q].pc = "done" => (query[q].hint <=> query[q].prev = "cold")

\* C14 as stated: the hint goes with a response iff the id was COLD before
\* the query, and of the queries of one id with no decay to COLD or disable
\* among them exactly the first found it COLD (carries the hint).
C14_AsStated ==
    /\ HintIffCold
    /\ \A c \in Corrs : \A i \in 1..Len(run[c]) :
          (run[c][i] = "cold") <=> (i = 1)

\* C14, amended: the hint goes with a response iff the id was COLD before the
\* query promoted it; of the queries of one id with no decay to COLD or
\* disable among them, handlers running concurrently included, none but the
\* first carries the hint, and the first carries it only when it found the id
\* COLD (not when an explicit enable had promoted the id before).
C14_HintOnce ==
    /\ HintIffCold
    /\ \A c \in Corrs : \A i \in 1..Len(run[c]) :
          (run[c][i] = "cold") => (i = 1)

\* While the handler of the first query of a COLD id is still waiting for
\* its traces, a second handler has queried the same id and answered
\* without the hint.
C14_Witness ==
    /\ query["q1"].pc = "db"
    /\ query["q1"].prev = "cold"
    /\ query["q2"].pc = "done"
    /\ query["q2"].corr = query["q1"].corr
    /\ query["q2"].prev = "hot"
    /\ ~query["q2"].hint
    /\ run[query["q1"].corr] = <<"cold", "hot">>

\* ------------------------------------------------------------ rate limit
\* Call i arrives at a window that holds no call of the last 60 s.
FromEmpty(i) ==
    i = 1 \/ recentLog[i].t - recentLog[i - 1].t >= RECENT_WINDOW

\* C15: of 31 /recent calls within one rolling 60 s window, the first
\* arriving at an empty window, the first 30 are accepted and the 31st is
\* rejected.
C15_RateLimit ==
    \A i \in DOMAIN recentLog :
        (/\ FromEmpty(i)
         /\ i + RECENT_LIMIT \in DOMAIN recentLog
         /\ recentLog[i + RECENT_LIMIT].t - recentLog[i].t < RECENT_WINDOW)
        => /\ \A k \in 0..(RECENT_LIMIT - 1) : recentLog[i + k].ok
           /\ ~recentLog[i + RECENT_LIMIT].ok

\* 31 calls spread over just under 60 s, after an older call that has left
\* the window: the 30th of them accepted, the 31st rejected.
C15_Witness ==
    /\ Len(recentLog) = RECENT_LIMIT + 2
    /\ recentLog[2].t - recentLog[1].t >= RECENT_WINDOW
    /\ recentLog[RECENT_LIMIT + 2].t - recentLog[2].t < RECENT_WINDOW
    /\ recentLog[RECENT_LIMIT + 1].ok
    /\ ~recentLog[RECENT_LIMIT + 2].ok

\* C16 as stated: a /recent call that is rejected leaves the rate window and
\* the request counter as they were.
C16_AsStated ==
    [][(RecentCall /\ ~recentLog'[Len(recentLog')].ok)
       => /\ recentWindow' = recentWindow
          /\ recentRequests' = recentRequests
      ]_vars

\* ------------------------------------------------------------- broadcast
\* The listeners registered under id c, in a registry subs.
ListenersOf(subs, c) == IF c \in DOMAIN subs THEN Range(subs[c]) ELSE {}

RegisteredIn(subs, s) == \E c \in DOMAIN subs : s \in Range(subs[c])

\* C17: notify(entry) puts the entry once at the end of the queue of every
\* listener registered under the entry's correlation id whose queue has room,
\* and leaves the queue of every listener of another id as it was.
C17_FanOut ==
    [][\A e \in NotifyEntries :
        Notify(e)
        => \A s \in Streams :
             /\ (s \in ListenersOf(subscribers, e.correlation_id)
                  /\ Len(queues[s]) < QUEUE_MAXSIZE)
                 => queues'[s] = Append(queues[s], e)
             /\ s \notin ListenersOf(subscribers, e.correlation_id)
                 => queues'[s] = queues[s]
      ]_vars

\* Two listeners of c1, one of them a read behind the other, hold entries of
\* c1 and nothing else.
C17_Witness ==
    /\ ListenersOf(subscribers, "c1") = {"s1", "s2"}
    /\ Len(queues["s1"]) = 2
    /\ Len(queues["s2"]) = 1
    /\ \A s \in Streams : \A i \in DOMAIN queues[s] :
          queues[s][i].correlation_id = "c1"

\* C18: a notify that finds a listener's queue full removes that listener
\* from the registry in the same call; no queue ever holds more than 100
\* entries; a live listener that is no longer registered gets no further
\* entry; the other listeners of the id get the entry and stay registered;
\* and when the removal leaves no listener, the id's bucket and its activity
\* timestamp are gone.
C18_FullQueueDropped ==
    [][/\ \A e \in NotifyEntries :
            Notify(e)
            => LET c == e.correlation_id
                   L == ListenersOf(subscribers, c)
                   full == {s \in L : Len(queues[s]) >= QUEUE_MAXSIZE}
               IN  /\ ListenersOf(subscribers', c) = L \ full
                   /\ \A s \in full : queues'[s] = queues[s]
                   /\ \A s \in L \ full : queues'[s] = Append(queues[s], e)
                   /\ (L # {} /\ L = full)
                        => (c \notin DOMAIN subscribers'
                            /\ c \notin DOMAIN subTs')
       /\ \A s \in Streams :
            /\ Len(queues'[s]) <= QUEUE_MAXSIZE
            /\ (stream[s].pc = "live" /\ stream'[s].pc = "live"
                 /\ ~RegisteredIn(subscribers, s))
                => (Len(queues'[s]) <= Len(queues[s])
                    /\ ~RegisteredIn(subscribers', s))
      ]_vars

\* Listener s1 filled up and was dropped; s2, on the same id, is still
\* registered and holds an entry delivered since.
C18_Witness ==
    /\ stream["s1"].pc = "live"
    /\ stream["s2"].pc = "live"
    /\ stream["s1"].corr = stream["s2"].corr
    /\ Len(queues["s1"]) = QUEUE_MAXSIZE
    /\ ListenersOf(subscribers, stream["s1"].corr) = {"s2"}
    /\ queues["s2"] # <<>>

\* C19 as stated: unsubscribe removes the queue's registration, and when it
\* was the id's last listener the id's bucket and its activity timestamp are
\* both gone afterwards.
C19_AsStated ==
    [][\A s \in Streams :
        StreamClose(s)
        => LET c == stream[s].corr
           IN  /\ s \notin ListenersOf(subscribers', c)
               /\ ListenersOf(subscribers, c) \subseteq {s}
                    => (c \notin DOMAIN subscribers'
                        /\ c \notin DOMAIN subTs')
      ]_vars

\* C20: a stream that leaves its live loop, by timeout, by an exception or
\* by the generator being closed, is in no bucket of the registry
\* afterwards; every registered queue belongs to a stream that is live on
\* that id.
C20_NoRegistrationLeft ==
    [][\A s \in Streams :
        /\ (stream[s].pc = "live" /\ stream'[s].pc # "live")
            => ~RegisteredIn(subscribers', s)
        /\ \A c \in DOMAIN subscribers' :
             s \in Range(subscribers'[c])
             => (stream'[s].pc = "live" /\ stream'[s].corr = c)
      ]_vars

\* One stream has failed in its live loop and another was closed by its
\* client after subscribing; the registry is empty.
C20_Witness ==
    /\ stream["s1"].pc = "failed"
    /\ stream["s2"].pc = "closed"
    /\ stream["s1"].corr = stream["s2"].corr
    /\ stream["s1"].corr \in DOMAIN subTs
    /\ subscribers = <<>>

\* C21 as stated: every live stream that ends, by its timeout or by a fault
\* or disconnect during its replay or live phase, has the terminal marker as
\* the last event it yielded.
C21_AsStated ==
    [][\A s \in Streams :
        (stream[s].pc \in {"replay", "live"}
         /\ stream'[s].pc \notin {"replay", "live"})
        => sent'[s].last = "marker"
      ]_vars

\* C22 as stated: under every interleaving of a stream handler with
\* concurrent ingest handlers, no stored row that the stream yielded during
\* its history replay reaches the same stream again through its live queue.
C22_AsStated ==
    \A s \in Streams :
        (stream[s].pc = "live" /\ sent[s].live # NoEntry)
        => Triple(sent[s].live) \notin sent[s].replayed

\* C23: a listener takes the entries of its queue in the order of the notify
\* calls that delivered them. The entries carry the instant of their notify
\* call: the entry a listener dequeues is never stamped earlier than the one
\* it dequeued before, nor later than any entry still waiting in its queue.
C23_NotifyOrder ==
    [][\A s \in Streams :
        WatchedGet(s)
        => /\ sent[s].live # NoEntry
                => sent[s].live.timestamp <= sent'[s].live.timestamp
           /\ \A i \in DOMAIN queues'[s] :
                sent'[s].live.timestamp <= queues'[s][i].timestamp
      ]_vars

\* Listener s1 subscribed to the id before s2, which has read nothing and
\* holds the entries of three notify calls at three instants; s1 has taken
\* the first two, the second last, and the third still waits.
C23_Witness ==
    /\ "c1" \in DOMAIN subscribers
    /\ subscribers["c1"] = <<"s1", "s2">>
    /\ Len(queues["s2"]) = 3
    /\ \A i \in 1..3 : queues["s2"][i].timestamp = i - 1
    /\ sent["s2"].live = NoEntry
    /\ sent["s1"].live = queues["s2"][2]
    /\ queues["s1"] = <<queues["s2"][3]>>

\* What tick n has to run, in order
TickPlan(n) ==
    <<"cooldown">> \o (IF n % 6 = 0 THEN <<"sweep", "trim">> ELSE <<>>)
                   \o (IF n % 360 = 0 THEN <<"retention">> ELSE <<>>)

\* C24: every tick n >= 1 runs cooldown_tick; the stale-subscriber sweep and
\* the rate-window trim run exactly on the multiples of 6 and the retention
\* sweep exactly on the multiples of 360; within a tick the order is
\* cooldown, sweep and trim, retention. The retention sweep is the only step
\* the tick waits for, and it starts after the others.
C24_Schedule ==
    /\ loop.tick >= 1 /\ loop.pc # "retention" => loop.did = TickPlan(loop.tick)
    /\ loop.pc = "retention"
         => /\ loop.tick % 360 = 0
            /\ loop.did = <<"cooldown", "sweep", "trim">>
    /\ loop.tick >= 1 /\ loop.pc # "work" => lastTick = now

\* Tick 360 is over: it ran all four steps.
C24_Witness ==
    /\ loop.tick = 360
    /\ loop.pc = "sleep"
    /\ loop.did = <<"cooldown", "sweep", "trim", "retention">>
    /\ lastTick = now

\* C25 as stated: the maintenance loop survives a failing tick: whatever
\* step of tick n raises, the loop is still there to perform tick n + 1.
C25_AsStated ==
    [][loop.pc = "retention" => loop'.pc = "sleep"]_vars

\* C26: a retention sweep at time now deletes every row whose storage time
\* (created_at) is earlier than now - RETENTION and no other row, keeps the
\* order of the rest, and returns the number of rows it deleted; a row
\* stored one second before the horizon goes and a row stored one second
\* after it stays, also for a row inserted at an instant that is not a whole
\* second. A soft-duplicate refresh that goes through sets the storage time
\* of the row to the refreshing handler's time.
C26_Retention ==
    [][/\ ForceCleanup
          => /\ rows' = SelectSeq(rows,
                            LAMBDA r : ~(r.created_at < now - RETENTION))
             /\ deleted' = Cardinality({i \in DOMAIN rows :
                                rows[i].created_at < now - RETENTION})
             /\ \A i \in DOMAIN rows :
                  /\ rows[i].created_at = now - RETENTION - Sec(1)
                       => rows[i] \notin Range(rows')
                  /\ rows[i].created_at = now - RETENTION + Sec(1)
                       => rows[i] \in Range(rows')
       /\ \A e \in RetentionEntries :
            /\ Row(e, now) \notin
                  Range(CleanupRows(<<Row(e, now)>>, now + RETENTION + Sec(1)))
            /\ Row(e, now) \in
                  Range(CleanupRows(<<Row(e, now)>>, now + RETENTION - Sec(1)))
       /\ \A h \in Handlers :
            (DbUpdate(h) /\ ingest'[h].how = "soft")
            => \A i \in SoftMatches(rows, Cur(h), ingest[h].t) :
                  rows'[i].created_at = ingest[h].t
      ]_vars

\* One second past the horizon of the first instant the sweep has just
\* deleted one row and returned 1; the row it left was refreshed by a soft
\* duplicate at an instant that is not a whole second, later than the cutoff.
C26_Witness ==
    /\ now = RETENTION + Sec(1)
    /\ deleted = 1
    /\ Len(rows) = 1
    /\ rows[1].created_at % SubSec # 0
    /\ rows[1].created_at > now - RETENTION

\* C27 as stated: a batch ingest call attempts every entry of the batch
\* whatever happens to the others and never fails because of one row; its
\* response counts as inserted exactly the rows the call added.
C27_AsStated ==
    [][\A h \in Handlers :
        ingest[h].kind = "batch"
        => /\ ingest'[h].pc # "raised"
           /\ ingest'[h].pc = "idle"
                => /\ ingest[h].pc = "ret"
                   /\ ingest[h].idx = Len(ingest[h].batch)
                   /\ ingest[h].inserted + (IF ingest[h].res THEN 1 ELSE 0)
                        = Cardinality({i \in DOMAIN ingest[h].outs :
                                          ingest[h].outs[i].how = "new"})
                          + ingest[h].added
      ]_vars

\* C28 as stated: a listener whose stream is still open and whose queue has
\* never been full stays registered for its correlation id, also across
\* stale-subscriber sweeps, so that every entry inserted for the id is put
\* on its queue.
C28_AsStated ==
    \A s \in Streams :
        (stream[s].pc = "live" /\ Len(queues[s]) < QUEUE_MAXSIZE)
        => s \in ListenersOf(subscribers, stream[s].corr)

\* C29 as stated: a /recent call is accepted whenever fewer than 30 /recent
\* calls were accepted in the 60 s before it; rejected calls use up no quota.
C29_AsStated ==
    \A i \in DOMAIN recentLog :
        Cardinality({j \in 1..(i - 1) :
                        /\ recentLog[j].ok
                        /\ recentLog[i].t - recentLog[j].t < RECENT_WINDOW})
            < RECENT_LIMIT
        => recentLog[i].ok

\* The rate window as it would be if the maintenance loop never trimmed it:
\* the time of every /recent call so far
Untrimmed == [i \in DOMAIN recentLog |-> recentLog[i].t]

\* C30: the maintenance trim of the /recent rate window is invisible. The
\* recent-rate count that /stats reports now, and the accept or reject
\* decision of every /recent call made so far, are what the untrimmed window
\* gives.
C30_TrimInvisible ==
    /\ RecentCount(recentWindow, now) = RecentCount(Untrimmed, now)
    /\ \A i \in DOMAIN recentLog :
         recentLog[i].ok
           = ~RateLimited(RecentCount(SubSeq(Untrimmed, 1, i), recentLog[i].t))

\* The trim has dropped a call that left the 60 s window; 31 calls are in
\* the window and the last of them, made just now, was rejected.
C30_Witness ==
    /\ Len(recentLog) = RECENT_LIMIT + 2
    /\ Len(recentWindow) = RECENT_LIMIT + 1
    /\ recentLog[RECENT_LIMIT + 2].t = now
    /\ ~recentLog[RECENT_LIMIT + 2].ok
    /\ recentLog[RECENT_LIMIT + 1].ok

\* C31: one cooldown tick applies at most one transition per id. An id that
\* is HOT before a tick is still tracked after it: WARM with the full WARM
\* period ahead when its deadline had been reached, however long ago, and
\* unchanged otherwise. A tick removes only ids that were WARM with their
\* deadline reached; an id becomes WARM only by a tick, which sets its
\* deadline to the tick's time + warm_ttl, and no step moves the deadline of
\* an id that stays WARM. So the tick that removes an id comes at least
\* warm_ttl after the tick that made it WARM.
C31_OneTransitionPerTick ==
    [][\A c \in Corrs :
        LET before == get_state(adaptive, c)
            after == get_state(adaptive', c)
        IN  /\ (CooldownTick /\ before = "hot")
                 => /\ c \in DOMAIN adaptive'
                    /\ adaptive[c].expires_at <= now
                         => /\ after = "warm"
                            /\ adaptive'[c].expires_at
                                 = now + ADAPTIVE_WARM_TTL
                    /\ adaptive[c].expires_at > now
                         => adaptive'[c] = adaptive[c]
            /\ (CooldownTick /\ before # "cold" /\ after = "cold")
                 => /\ before = "warm"
                    /\ adaptive[c].expires_at <= now
            /\ (before # "warm" /\ after = "warm")
                 => /\ CooldownTick
                    /\ before = "hot"
                    /\ adaptive'[c].expires_at = now + ADAPTIVE_WARM_TTL
            /\ (before = "warm" /\ after = "warm")
                 => adaptive'[c].expires_at = adaptive[c].expires_at
      ]_vars

\* An id promoted at time 0 and left alone met its first tick only when hot_ttl
\* and warm_ttl had both passed: that tick has made it WARM, with the whole
\* WARM period ahead.
C31_Witness ==
    /\ lastTick = now
    /\ now >= ADAPTIVE_HOT_TTL + ADAPTIVE_WARM_TTL
    /\ "c1" \in DOMAIN adaptive
    /\ adaptive["c1"].state = "warm"
    /\ adaptive["c1"].queried_at = 0
    /\ adaptive["c1"].expires_at = now + ADAPTIVE_WARM_TTL

\* C32: when the sender thread has exited, the queue holds no entry: every
\* entry that send() placed on the queue was handed to _send_batch, whatever
\* the interleaving of send(), close() and the sender thread.
C32_AsStated == sender.pc = "exited" => queue = <<>>

\* C33: when flush() returns before its deadline, every entry that send()
\* had placed on the queue before the flush call has been handed to
\* _send_batch.
C33_AsStated ==
    \A t \in Threads :
        (caller[t].ret.op = "flush" /\ caller[t].ret.early)
            => caller[t].ret.before \subseteq handed

\* C34: at every moment between two operations on the registry, _subscribers
\* holds no empty bucket, and every correlation id in _subscribers also has
\* an entry in _subscriber_timestamps.
C34_Registry ==
    /\ \A c \in DOMAIN subscribers : subscribers[c] # <<>>
    /\ DOMAIN subscribers \subseteq DOMAIN subTs

\* Before any sweep can act: notify_subscribers has dropped the full queue of
\* s1 and with it the bucket and the timestamp of c1, while c2, subscribed to
\* and unsubscribed from, keeps its timestamp without a bucket.
C34_Witness ==
    /\ now = 0
    /\ stream["s1"].pc = "live" /\ stream["s1"].corr = "c1"
    /\ Len(queues["s1"]) >= QUEUE_MAXSIZE
    /\ "c1" \notin DOMAIN subscribers /\ "c1" \notin DOMAIN subTs
    /\ "c2" \in DOMAIN subTs /\ "c2" \notin DOMAIN subscribers

====
